---- MODULE Spec2Model ----
(***************************************************************************)
(* Time-triggered (TT) send scheduler of the datapath: the per-port flow   *)
(* table (datapath/tt.c), the port operations on it (datapath/vport.c)     *)
(* and the dispatcher that expands a send table into a send cache.         *)
(***************************************************************************)
EXTENDS Integers, Sequences, FiniteSets, TLC

VARIABLES
    sched,          \* vport->tt_schedule_info is allocated
    send_tt_table,  \* schedule_info->send_tt_table: NULL or a tt_table
    send_info,      \* schedule_info->send_info: NULL or a tt_send_info
    hrtimer_flag,   \* schedule_info->hrtimer_flag
    timer_armed,    \* schedule_info->timer is enqueued
    live,           \* history: flow ids inserted into the send table and not deleted
    last,           \* history: the last port operation, its arguments and result
    heap_overrun,   \* history: a store went past the end of an allocation
    oops,           \* the kernel faulted inside an operation
    session,        \* ofproto->tt_table: NULL or a struct onf_tt_table
    tmr,            \* the clock, schedule_info->timer, send_info->advance_time
                    \* and the positions of the timer handler and of the
                    \* control path inside cancel and start
    rcu,            \* the tt_table allocations, the pointer the port
                    \* publishes, the grace periods, and the positions of
                    \* the writer and of the readers
    skb,            \* the sk_buff the header codec works on
    hnd             \* one run of the timer handler against the ingress
                    \* path and the control path, statement by statement

vars == <<sched, send_tt_table, send_info, hrtimer_flag, timer_armed,
          live, last, heap_overrun, oops, session, tmr, rcu, skb, hnd>>

\* the state of one port of the datapath
portVars == <<sched, send_tt_table, send_info, hrtimer_flag, timer_armed,
              live, last, heap_overrun, oops>>

\* the port state a step outside the port operations leaves alone, `last` apart
portState == <<sched, send_tt_table, send_info, hrtimer_flag, timer_armed,
               live, heap_overrun, oops>>

\* the state outside the port, which no port operation touches
beyondPort == <<session, tmr, rcu, skb, hnd>>

----------------------------------------------------------------------------
(* Bounds of the model. *)

\* largest flow id the control path inserts or deletes
MaxFlowId == 4

\* how far below zero tt_table.count may be driven before deletes of
\* present items are no longer explored
MaxDeletes == 1

\* largest flow id of the send tables handed to the dispatcher
MaxDispatchId == 1

\* largest period (circle) of the entries handed to the dispatcher
MaxPeriod == 3

----------------------------------------------------------------------------
(* Program constants. *)

\* floor of the table capacity (tt.h)
TT_TABLE_SIZE_MIN == 4

\* number of values of a __u16
U16 == 65536

NULL == [null |-> TRUE]

FlowIds == 0 .. MaxFlowId

\* the attribute tuples the control path installs; the two differ in
\* every field
EntryVariants ==
    { [buffer_id |-> 1, circle |-> 2, length |-> 64, time |-> 0],
      [buffer_id |-> 2, circle |-> 3, length |-> 128, time |-> 1] }

\* struct tt_table_item as the caller of the insert passes it
MkItem(k, v) ==
    [flow_id |-> k, buffer_id |-> v.buffer_id, circle |-> v.circle,
     length |-> v.length, time |-> v.time]

Max2(a, b) == IF a >= b THEN a ELSE b

----------------------------------------------------------------------------
(* Flow table, datapath/tt.c *)

\* kzalloc of a table with max(TT_TABLE_SIZE_MIN, size) empty slots
tt_table_alloc(size) ==
    LET n == Max2(TT_TABLE_SIZE_MIN, size)
    IN  [count |-> 0, max |-> n, tt_items |-> [i \in 0 .. n - 1 |-> NULL]]

\* the slots of old that the copy loop of tt_table_realloc stores past the
\* end of the new table
ReallocOverrun(old, size) ==
    /\ old # NULL
    /\ \E i \in 0 .. old.max - 1 :
          /\ old.tt_items[i] # NULL
          /\ i >= Max2(TT_TABLE_SIZE_MIN, size)

\* new table of the given size carrying over the slots of old; ok is the
\* outcome of the allocation
tt_table_realloc(old, size, ok) ==
    IF ~ok THEN NULL
    ELSE LET new == tt_table_alloc(size)
         IN  IF old = NULL THEN new
             ELSE [count    |-> old.count,
                   max      |-> new.max,
                   tt_items |-> [i \in 0 .. new.max - 1 |->
                                   IF i < old.max /\ old.tt_items[i] # NULL
                                   THEN old.tt_items[i]
                                   ELSE NULL]]

tt_table_lookup(cur_tt_table, flow_id) ==
    IF cur_tt_table = NULL \/ flow_id >= cur_tt_table.max
    THEN NULL
    ELSE cur_tt_table.tt_items[flow_id]

tt_table_num_items(cur_tt_table) == cur_tt_table.count

\* the table after the slot of flow_id is cleared, before the shrink test
DeleteCleared(cur_tt_table, flow_id) ==
    IF cur_tt_table.tt_items[flow_id] # NULL
    THEN [cur_tt_table EXCEPT !.tt_items[flow_id] = NULL, !.count = @ - 1]
    ELSE cur_tt_table

\* the shrink test of tt_table_delete_item
DeleteShrinks(t) ==
    /\ t.max >= TT_TABLE_SIZE_MIN * 2
    /\ t.count <= t.max \div 3

tt_table_delete_item(cur_tt_table, flow_id, ok) ==
    IF cur_tt_table = NULL \/ flow_id >= cur_tt_table.max
    THEN NULL
    ELSE LET t == DeleteCleared(cur_tt_table, flow_id)
         IN  IF DeleteShrinks(t)
             THEN LET res_tt_table == tt_table_realloc(t, t.max \div 2, ok)
                  IN  IF res_tt_table = NULL THEN t ELSE res_tt_table
             ELSE t

\* the insert reallocates
InsertGrows(cur_tt_table, flow_id) ==
    cur_tt_table = NULL \/ flow_id > cur_tt_table.max

\* the final store of tt_table_item_insert lands past the last slot
InsertOverrun(cur_tt_table, flow_id) ==
    /\ cur_tt_table # NULL
    /\ flow_id = cur_tt_table.max

\* item_ok, tbl_ok: outcomes of the two allocations
tt_table_item_insert(cur_tt_table, new, item_ok, tbl_ok) ==
    LET flow_id == new.flow_id
        item == [flow_id   |-> new.flow_id,
                 buffer_id |-> new.buffer_id,
                 circle    |-> new.circle,
                 length    |-> new.length,
                 time      |-> new.time]
    IN  IF ~item_ok THEN NULL
        ELSE IF InsertGrows(cur_tt_table, flow_id)
             THEN LET res_tt_table ==
                          tt_table_realloc(cur_tt_table,
                                           flow_id + TT_TABLE_SIZE_MIN, tbl_ok)
                  IN  IF res_tt_table = NULL THEN NULL
                      ELSE [res_tt_table EXCEPT !.tt_items[flow_id] = item]
             ELSE IF flow_id < cur_tt_table.max
                  THEN [cur_tt_table EXCEPT !.tt_items[flow_id] = item]
                  ELSE cur_tt_table    \* store past the end of tt_items

\* the flow ids whose slot is occupied
Occupied(t) ==
    IF t = NULL THEN {}
    ELSE { i \in 0 .. t.max - 1 : t.tt_items[i] # NULL }

----------------------------------------------------------------------------
(* Port operations, datapath/vport.c *)

NoOp == [op |-> "none", flow_id |-> 0, item |-> NULL, ret |-> "OK"]

\* the timer of a port that was never started, with SEND_ADVANCE_TIME = a:
\* no handler running, the control path outside cancel and start
TimerIdle(a) ==
    [clock |-> 0, expires |-> 0, advance_time |-> a,
     hpc |-> "idle", restart |-> FALSE,
     ctl |-> "idle", cancelled |-> FALSE, overlap |-> "none",
     idx |-> 0, prev_idx |-> 0, fired |-> 0, ontime |-> TRUE]

\* most tt_table allocations of one run
MaxTables == 3

\* number of concurrent readers
MaxReaders == 2

\* the larger of the two flow ids the writer inserts and deletes
MaxRcuFlowId == 5

ObjIds == 1 .. MaxTables

Readers == 1 .. MaxReaders

\* no table allocated, the port publishes NULL, writer and readers outside
\* their operations
RcuIdle ==
    [port |-> 0,
     heap |-> [o \in ObjIds |-> [st |-> "free", tbl |-> NULL, waits |-> {}]],
     wpc |-> "idle", wtmp |-> 0, wold |-> 0, carried |-> {},
     rd |-> [r \in Readers |-> [pc |-> "out", ref |-> 0]],
     uaf |-> FALSE, lost |-> FALSE]

\* the state outside the port before the control plane has acted
BeyondPortInit ==
    /\ session = NULL
    /\ tmr = TimerIdle(0)
    /\ rcu = RcuIdle
    /\ skb = NULL
    /\ hnd = NULL

Init ==
    /\ sched = FALSE
    /\ send_tt_table = NULL
    /\ send_info = NULL
    /\ hrtimer_flag = 0
    /\ timer_armed = FALSE
    /\ live = {}
    /\ last = NoOp
    /\ heap_overrun = FALSE
    /\ oops = FALSE
    /\ BeyondPortInit

\* ovs_vport_finish_tt_schedule: cancel the timer, free the schedule state
FinishTtSchedule ==
    /\ sched' = FALSE
    /\ send_tt_table' = NULL
    /\ send_info' = NULL
    /\ hrtimer_flag' = 0
    /\ timer_armed' = FALSE
    /\ live' = {}

\* sched_ok, item_ok, tbl_ok: outcomes of the allocations; flag: the value
\* read from the local flag when the schedule state already existed (the
\* local is not initialised on that path)
ovs_vport_modify_send_tt_item(tt_item, sched_ok, item_ok, tbl_ok, flag) ==
    /\ ~oops
    /\ UNCHANGED beyondPort
    /\ IF ~sched /\ ~sched_ok
       THEN /\ last' = [op |-> "insert", flow_id |-> tt_item.flow_id,
                        item |-> tt_item, ret |-> "ENOMEM"]
            /\ UNCHANGED <<sched, send_tt_table, send_info, hrtimer_flag,
                           timer_armed, live, heap_overrun, oops>>
       ELSE LET cur_tt_table == send_tt_table
                tmp_tt_table == tt_table_item_insert(cur_tt_table, tt_item,
                                                     item_ok, tbl_ok)
                f == IF sched THEN flag ELSE TRUE
            IN  IF tmp_tt_table # NULL
                THEN /\ sched' = TRUE
                     /\ send_tt_table' = tmp_tt_table
                     /\ live' = live \cup {tt_item.flow_id}
                     /\ heap_overrun' = (heap_overrun \/
                                         InsertOverrun(cur_tt_table, tt_item.flow_id))
                     /\ last' = [op |-> "insert", flow_id |-> tt_item.flow_id,
                                 item |-> tt_item, ret |-> "OK"]
                     /\ UNCHANGED <<send_info, hrtimer_flag, timer_armed, oops>>
                ELSE /\ IF f THEN FinishTtSchedule
                        ELSE /\ sched' = TRUE
                             /\ UNCHANGED <<send_tt_table, send_info, hrtimer_flag,
                                            timer_armed, live>>
                     /\ last' = [op |-> "insert", flow_id |-> tt_item.flow_id,
                                 item |-> tt_item, ret |-> "ENOMEM"]
                     /\ UNCHANGED <<heap_overrun, oops>>

ovs_vport_del_send_tt_item(flow_id, tbl_ok) ==
    /\ ~oops
    /\ UNCHANGED beyondPort
    /\ IF ~sched
       THEN /\ last' = [op |-> "delete", flow_id |-> flow_id, item |-> NULL,
                        ret |-> "OK"]
            /\ UNCHANGED <<sched, send_tt_table, send_info, hrtimer_flag,
                           timer_armed, live, heap_overrun, oops>>
       ELSE LET cur_tt_table == send_tt_table
                tmp_tt_table == tt_table_delete_item(cur_tt_table, flow_id, tbl_ok)
            IN  /\ tmp_tt_table # NULL => tmp_tt_table.count >= 0 - MaxDeletes
                /\ IF tmp_tt_table # NULL
                   THEN /\ send_tt_table' = tmp_tt_table
                        /\ live' = live \ {flow_id}
                        /\ heap_overrun' =
                              (heap_overrun \/
                               (/\ tmp_tt_table.max # cur_tt_table.max
                                /\ ReallocOverrun(DeleteCleared(cur_tt_table, flow_id),
                                                  cur_tt_table.max \div 2)))
                        /\ last' = [op |-> "delete", flow_id |-> flow_id,
                                    item |-> NULL, ret |-> "OK"]
                   ELSE /\ last' = [op |-> "delete", flow_id |-> flow_id,
                                    item |-> NULL, ret |-> "ENOMEM"]
                        /\ UNCHANGED <<send_tt_table, live, heap_overrun>>
                /\ UNCHANGED <<sched, send_info, hrtimer_flag, timer_armed, oops>>

\* ovs_vport_del_send_tt_table with ovs_vport_tt_send_info_reset
ovs_vport_del_send_tt_table ==
    /\ ~oops
    /\ UNCHANGED beyondPort
    /\ sched
    /\ send_tt_table' = NULL
    /\ send_info' = NULL
    /\ live' = {}
    /\ last' = [op |-> "drop", flow_id |-> 0, item |-> NULL, ret |-> "OK"]
    /\ UNCHANGED <<sched, hrtimer_flag, timer_armed, heap_overrun, oops>>

----------------------------------------------------------------------------
(* Dispatcher, datapath/tt.c *)

RECURSIVE gcd(_, _)
gcd(a, b) ==
    IF b = 0 THEN a
    ELSE gcd(b, a % b)

\* lcm without the division by the gcd
lcm_NoGcd(a, b) == a * b

lcm(a, b) ==
    LET g == gcd(a, b)
    IN  (a \div g) * b

\* first loop of dispatch: lcm of the circle of every present item,
\* accumulated over the slots i .. max-1
RECURSIVE MacroPeriodFrom(_, _, _)
MacroPeriodFrom(send_table, i, macro_period) ==
    IF i >= send_table.max THEN macro_period
    ELSE IF send_table.tt_items[i] = NULL
         THEN MacroPeriodFrom(send_table, i + 1, macro_period)
         ELSE MacroPeriodFrom(send_table, i + 1,
                              lcm(macro_period, send_table.tt_items[i].circle))

MacroPeriod(send_table) == MacroPeriodFrom(send_table, 0, 1)

\* second loop of dispatch: the number of instants in one macro period
RECURSIVE SizeFrom(_, _, _)
SizeFrom(send_table, i, macro_period) ==
    IF i >= send_table.max THEN 0
    ELSE IF send_table.tt_items[i] = NULL
         THEN SizeFrom(send_table, i + 1, macro_period)
         ELSE (macro_period \div send_table.tt_items[i].circle)
              + SizeFrom(send_table, i + 1, macro_period)

\* the inner while loop of the third loop: the instants of one item from
\* offset on, as <<time, flow_id>> pairs
RECURSIVE Instants(_, _, _)
Instants(tt_item, offset, macro_period) ==
    IF offset < macro_period
    THEN <<[t |-> offset, f |-> tt_item.flow_id]>>
         \o Instants(tt_item, offset + tt_item.circle, macro_period)
    ELSE <<>>

\* third loop of dispatch: the instants of every present item, in slot order
RECURSIVE ExpandFrom(_, _, _)
ExpandFrom(send_table, i, macro_period) ==
    IF i >= send_table.max THEN <<>>
    ELSE IF send_table.tt_items[i] = NULL
         THEN ExpandFrom(send_table, i + 1, macro_period)
         ELSE Instants(send_table.tt_items[i], send_table.tt_items[i].time,
                       macro_period)
              \o ExpandFrom(send_table, i + 1, macro_period)

\* the two parallel arrays of length size, cell k holding the k-th instant;
\* oob records an access outside 0 .. size-1
Arrays(pairs) ==
    [t   |-> [k \in 0 .. Len(pairs) - 1 |-> pairs[k + 1].t],
     f   |-> [k \in 0 .. Len(pairs) - 1 |-> pairs[k + 1].f],
     n   |-> Len(pairs),
     oob |-> FALSE]

SWAP(a, i, j) ==
    [a EXCEPT !.t = [@ EXCEPT ![i] = a.t[j], ![j] = a.t[i]],
              !.f = [@ EXCEPT ![i] = a.f[j], ![j] = a.f[i]]]

\* while (send_times[l] <= send_times[right]) l++;   -1: ran off the arrays
RECURSIVE ScanL(_, _, _)
ScanL(a, l, right) ==
    IF l >= a.n THEN 0 - 1
    ELSE IF a.t[l] <= a.t[right] THEN ScanL(a, (l + 1) % U16, right)
         ELSE l

\* while (send_times[r] > send_times[right]) r--;    -1: ran off the arrays
RECURSIVE ScanR(_, _, _)
ScanR(a, r, right) ==
    IF r >= a.n THEN 0 - 1
    ELSE IF a.t[r] > a.t[right] THEN ScanR(a, (r - 1 + U16) % U16, right)
         ELSE r

\* the partition loop of sort; yields the arrays and the final l
RECURSIVE PartitionLoop(_, _, _, _)
PartitionLoop(a, l, r, right) ==
    IF ~(l < r) THEN [a |-> a, l |-> l]
    ELSE LET l1 == ScanL(a, l, right)
             r1 == IF l1 < 0 THEN 0 - 1 ELSE ScanR(a, r, right)
         IN  IF l1 < 0 \/ r1 < 0
             THEN [a |-> [a EXCEPT !.oob = TRUE], l |-> l]
             ELSE IF l1 < r1
                  THEN PartitionLoop(SWAP(a, l1, r1), l1, r1, right)
                  ELSE PartitionLoop(a, l1, r1, right)

RECURSIVE sort(_, _, _)
sort(a, left, right) ==
    IF a.oob \/ left >= right THEN a
    ELSE IF right >= a.n THEN [a EXCEPT !.oob = TRUE]
    ELSE LET mid == left + (right - left) \div 2
             r0  == IF a.t[right] < a.t[left] THEN left ELSE right
             l0  == IF a.t[right] < a.t[left] THEN right ELSE left
             a1  == IF a.t[mid] < a.t[l0] THEN SWAP(a, l0, right)
                    ELSE IF a.t[mid] > a.t[r0] THEN SWAP(a, r0, right)
                    ELSE SWAP(a, mid, right)
             p   == PartitionLoop(a1, left, (right - 1 + U16) % U16, right)
         IN  IF p.a.oob THEN p.a
             ELSE LET a2 == SWAP(p.a, p.l, right)
                      a3 == sort(a2, left, (p.l - 1 + U16) % U16)
                  IN  sort(a3, (p.l + 1) % U16, right)

\* the arrays dispatch hands to the install step: expanded and sorted
Dispatched(send_table) ==
    LET macro_period == MacroPeriod(send_table)
        size == SizeFrom(send_table, 0, macro_period)
        a == Arrays(ExpandFrom(send_table, 0, macro_period))
    IN  sort(a, 0, (size - 1 + U16) % U16)

\* struct tt_send_info with its tt_send_cache
SendInfo(macro_period, a) ==
    [macro_period |-> macro_period,
     send_cache   |-> [send_times |-> a.t, flow_ids |-> a.f, size |-> a.n]]

\* words the memory around the arrays may hold
HeapWords == {0, U16 - 1}

\* the arrays after a sort that left them: the first j cells hold the word w
\* of the surrounding memory
Clobbered(a, j, w) ==
    [a EXCEPT !.t = [k \in 0 .. a.n - 1 |-> IF k < j THEN w ELSE a.t[k]],
              !.f = [k \in 0 .. a.n - 1 |-> IF k < j THEN w ELSE a.f[k]]]

\* ovs_vport_hrtimer_cancel, as the values of hrtimer_flag and timer_armed
\* it leaves
CancelledFlag == IF sched /\ hrtimer_flag = 1 THEN 0 ELSE hrtimer_flag
CancelledArmed == IF sched /\ hrtimer_flag = 1 THEN FALSE ELSE timer_armed

ovs_vport_hrtimer_cancel ==
    /\ ~oops
    /\ UNCHANGED beyondPort
    /\ hrtimer_flag' = CancelledFlag
    /\ timer_armed' = CancelledArmed
    /\ last' = [op |-> "cancel", flow_id |-> 0, item |-> NULL, ret |-> "OK"]
    /\ UNCHANGED <<sched, send_tt_table, send_info, live, heap_overrun, oops>>

\* ovs_vport_start_tt_schedule: cancel, dispatch, ovs_vport_hrtimer_start.
\* mem_ok: outcome of the allocations of dispatch.
ovs_vport_start_tt_schedule(mem_ok) ==
    /\ ~oops
    /\ UNCHANGED beyondPort
    /\ IF send_tt_table = NULL \/ ~mem_ok
       THEN \* dispatch fails before it touches the port
            /\ hrtimer_flag' = CancelledFlag
            /\ timer_armed' = CancelledArmed
            /\ last' = [op |-> "start", flow_id |-> 0, item |-> NULL,
                        ret |-> "EINVAL"]
            /\ UNCHANGED <<sched, send_tt_table, send_info, live,
                           heap_overrun, oops>>
       ELSE LET macro_period == MacroPeriod(send_tt_table)
                a == Dispatched(send_tt_table)
            IN  IF ~a.oob
                THEN /\ send_info' = SendInfo(macro_period, a)
                     /\ hrtimer_flag' = 1
                     /\ timer_armed' = TRUE
                     /\ last' = [op |-> "start", flow_id |-> 0, item |-> NULL,
                                 ret |-> "OK"]
                     /\ UNCHANGED <<sched, send_tt_table, live, heap_overrun, oops>>
                ELSE \* the sort ran outside the arrays: the kernel faults,
                     \* or the sort returns with words of other memory
                     \/ /\ oops' = TRUE
                        /\ hrtimer_flag' = CancelledFlag
                        /\ timer_armed' = CancelledArmed
                        /\ last' = [op |-> "start", flow_id |-> 0, item |-> NULL,
                                    ret |-> "OOPS"]
                        /\ UNCHANGED <<sched, send_tt_table, send_info, live,
                                       heap_overrun>>
                     \/ \E j \in 0 .. a.n, w \in HeapWords :
                        /\ send_info' = SendInfo(macro_period, Clobbered(a, j, w))
                        /\ hrtimer_flag' = 1
                        /\ timer_armed' = TRUE
                        /\ heap_overrun' = TRUE
                        /\ last' = [op |-> "start", flow_id |-> 0, item |-> NULL,
                                    ret |-> "OK"]
                        /\ UNCHANGED <<sched, send_tt_table, live, oops>>

\* the allocation outcomes of one insert: all succeed, or exactly one fails
AllocOutcomes ==
    { o \in [sched_ok : BOOLEAN, item_ok : BOOLEAN, tbl_ok : BOOLEAN, flag : BOOLEAN] :
        \/ o.sched_ok /\ o.item_ok /\ o.tbl_ok /\ ~o.flag
        \/ ~o.sched_ok /\ o.item_ok /\ o.tbl_ok /\ ~o.flag
        \/ o.sched_ok /\ ~o.item_ok /\ o.tbl_ok
        \/ o.sched_ok /\ o.item_ok /\ ~o.tbl_ok }

InsertSend ==
    \E k \in FlowIds, v \in EntryVariants, o \in AllocOutcomes :
        ovs_vport_modify_send_tt_item(MkItem(k, v), o.sched_ok, o.item_ok,
                                      o.tbl_ok, o.flag)

DeleteSend ==
    \E k \in FlowIds, c \in BOOLEAN : ovs_vport_del_send_tt_item(k, c)

DropSend == ovs_vport_del_send_tt_table

Next == InsertSend \/ DeleteSend \/ DropSend

Spec == Init /\ [][Next]_vars

----------------------------------------------------------------------------
(* The dispatcher on every send table over the ids 0 .. MaxDispatchId. *)

DispatchIds == 0 .. MaxDispatchId

\* the attributes of the entries handed to the dispatcher:
\* circle > 0 and 0 <= time < circle
DispatchVariants ==
    { v \in [buffer_id : {1}, circle : 1 .. MaxPeriod, length : {64},
             time : 0 .. MaxPeriod - 1] : v.time < v.circle }

\* the table the inserts of the chosen entries build, in ascending id order
RECURSIVE InsertAll(_, _, _)
InsertAll(t, c, k) ==
    IF k > MaxDispatchId THEN t
    ELSE IF c[k] = NULL THEN InsertAll(t, c, k + 1)
         ELSE InsertAll(tt_table_item_insert(t, MkItem(k, c[k]), TRUE, TRUE),
                        c, k + 1)

\* a table whose only entry was deleted again
EmptiedTable ==
    tt_table_delete_item(
        tt_table_item_insert(NULL,
                             MkItem(0, CHOOSE v \in DispatchVariants : TRUE),
                             TRUE, TRUE),
        0, TRUE)

InitDispatch ==
    /\ \E c \in [DispatchIds -> DispatchVariants \cup {NULL}], e \in BOOLEAN :
          send_tt_table = IF e /\ (\A k \in DispatchIds : c[k] = NULL)
                          THEN EmptiedTable
                          ELSE InsertAll(NULL, c, 0)
    /\ sched \in BOOLEAN
    /\ send_tt_table # NULL => sched
    /\ send_info = NULL
    /\ hrtimer_flag = 0
    /\ timer_armed = FALSE
    /\ live = Occupied(send_tt_table)
    /\ last = NoOp
    /\ heap_overrun = FALSE
    /\ oops = FALSE
    /\ BeyondPortInit

StartSchedule == \E m \in BOOLEAN : ovs_vport_start_tt_schedule(m)

CancelSchedule == ovs_vport_hrtimer_cancel

NextDispatch == StartSchedule \/ CancelSchedule

SpecDispatch == InitDispatch /\ [][NextDispatch]_vars

\* the schedule of a port together with the drop of its send table
NextLifecycle == StartSchedule \/ CancelSchedule \/ DropSend

SpecLifecycle == InitDispatch /\ [][NextLifecycle]_vars

----------------------------------------------------------------------------
(* Selection of the next instant, datapath/tt.c, as the timer handler
   calls it. *)

\* largest reading of the global clock handed to get_next_time
MaxGlobalTime == 7

\* do_div(n, base): n is replaced by the quotient, the remainder is the
\* value of the expression
do_div(n, base) == [n |-> n \div base, rem |-> n % base]

\* the while loop of binarySearch
RECURSIVE SearchLoop(_, _, _, _)
SearchLoop(send_times, modTime, left, right) ==
    IF left < right
    THEN LET mid == (right - left) \div 2 + left
         IN  IF send_times[mid] <= modTime
             THEN SearchLoop(send_times, modTime, mid + 1, right)
             ELSE SearchLoop(send_times, modTime, left, mid)
    ELSE left

\* binarySearch with the result of the loop taken one cell back, wrapping
\* from 0 to size - 1
binarySearch_OneBack(si, modTime) ==
    LET size == si.send_cache.size % U16
        left == SearchLoop(si.send_cache.send_times, modTime, 0, size - 1)
    IN  do_div(left + size - 1, size).rem

\* for a cache of 1 .. U16 - 1 cells
binarySearch(si, modTime) ==
    LET size == si.send_cache.size % U16
        left == SearchLoop(si.send_cache.send_times, modTime, 0, size - 1)
    IN  do_div(left, size).rem

\* get_next_time: the three values it stores through its pointers, with
\* the values of its locals.  The __u64 differences are kept as integers:
\* a value below zero stands for that value plus 2^64.
get_next_time(si, cur_time) ==
    LET send_cache == si.send_cache
        d          == do_div(cur_time, si.macro_period)
        mod_time   == d.rem
        idx        == binarySearch(si, mod_time)
        next_idx   == do_div(idx + 1, send_cache.size).rem
        wait_time  == IF next_idx = 0
                      THEN send_cache.send_times[next_idx] + si.macro_period
                               - send_cache.send_times[idx]
                      ELSE send_cache.send_times[next_idx]
                               - send_cache.send_times[idx]
        send_time  == IF mod_time > send_cache.send_times[idx]
                      THEN si.macro_period - mod_time + send_cache.send_times[idx]
                      ELSE send_cache.send_times[idx] - mod_time
    IN  [mod_time |-> mod_time, idx |-> idx, next_idx |-> next_idx,
         flow_id |-> send_cache.flow_ids[idx], wait_time |-> wait_time,
         send_time |-> d.n + send_time]

\* lines 292-295 of hrtimer_handler: the two clock readings, the call of
\* get_next_time and the absolute send time.  global_register_time and
\* current_time are readings of the same clock, lag apart.
HandlerSelects(global_register_time, lag) ==
    /\ ~oops
    /\ send_info # NULL
    /\ IF send_info.send_cache.size = 0
       THEN \* do_div by a size of zero
            /\ oops' = TRUE
            /\ last' = [op |-> "next", flow_id |-> 0, item |-> NULL,
                        ret |-> "OOPS"]
       ELSE LET current_time == global_register_time + lag
                r == get_next_time(send_info, global_register_time)
            IN  /\ last' = [op |-> "next", flow_id |-> r.flow_id,
                            item |-> [global_register_time |-> global_register_time,
                                      current_time |-> current_time,
                                      mod_time |-> r.mod_time,
                                      idx |-> r.idx,
                                      wait_time |-> r.wait_time,
                                      offset_send_time |-> r.send_time,
                                      send_time |-> current_time + r.send_time],
                            ret |-> "OK"]
                /\ UNCHANGED oops
    /\ UNCHANGED <<sched, send_tt_table, send_info, hrtimer_flag, timer_armed,
                   live, heap_overrun>>
    /\ UNCHANGED beyondPort

\* the send tables whose schedule the handler is run on: ids
\* 0 .. MaxDispatchId + 1, periods 1 and MaxPeriod
SelectIds == 0 .. MaxDispatchId + 1

SelectVariants == { v \in DispatchVariants : v.circle \in {1, MaxPeriod} }

RECURSIVE InsertEach(_, _, _)
InsertEach(t, c, k) ==
    IF k \notin DOMAIN c THEN t
    ELSE IF c[k] = NULL THEN InsertEach(t, c, k + 1)
         ELSE InsertEach(tt_table_item_insert(t, MkItem(k, c[k]), TRUE, TRUE),
                         c, k + 1)

\* the port after a start whose sort stayed inside the arrays
InitSelect ==
    /\ \E c \in [SelectIds -> SelectVariants \cup {NULL}] :
          /\ \E k \in SelectIds : c[k] # NULL
          /\ send_tt_table = InsertEach(NULL, c, 0)
    /\ ~Dispatched(send_tt_table).oob
    /\ send_info = SendInfo(MacroPeriod(send_tt_table), Dispatched(send_tt_table))
    /\ sched = TRUE
    /\ hrtimer_flag = 1
    /\ timer_armed = TRUE
    /\ live = Occupied(send_tt_table)
    /\ last = [op |-> "start", flow_id |-> 0, item |-> NULL, ret |-> "OK"]
    /\ heap_overrun = FALSE
    /\ oops = FALSE
    /\ BeyondPortInit

SelectNext ==
    \E g \in 0 .. MaxGlobalTime, lag \in 0 .. 1 : HandlerSelects(g, lag)

NextSelect == SelectNext

SpecSelect == InitSelect /\ [][NextSelect]_vars

----------------------------------------------------------------------------
(* The timer loop: cancel and start of the control path, step by step,
   against the timer handler, datapath/vport.c *)

\* the clock reading after which no timer expiry is explored
MaxClock == 9

\* largest SEND_ADVANCE_TIME
MaxAdvance == 1

\* hrtimer_cancel on a timer whose callback runs returns only once the
\* callback has (-1: the call has not returned), and otherwise tells
\* whether the timer was enqueued: 1 or 0
hrtimer_cancel_NoWait(queued, running) ==
    IF queued THEN 1 ELSE 0

hrtimer_cancel(queued, running) ==
    IF running THEN 0 - 1
    ELSE IF queued THEN 1 ELSE 0

\* hrtimer_forward_now: the expiry moved past now by whole intervals; an
\* interval below the timer resolution counts as the resolution
hrtimer_forward_now(expires, now, interval) ==
    LET incr == Max2(interval, 1)
    IN  IF now < expires THEN expires
        ELSE expires + incr * ((now - expires) \div incr + 1)

\* the first lines of ovs_vport_hrtimer_cancel, entered by cancel
\* (mode "cancel_loop") or by ovs_vport_start_tt_schedule ("start_loop")
CancelEnter(mode) ==
    /\ ~oops
    /\ sched
    /\ tmr.ctl = "idle"
    /\ IF hrtimer_flag = 1
       THEN /\ hrtimer_flag' = 0
            /\ tmr' = [tmr EXCEPT !.ctl = mode, !.overlap = tmr.hpc]
       ELSE /\ UNCHANGED hrtimer_flag
            /\ tmr' = IF mode = "cancel_loop"
                      THEN [tmr EXCEPT !.cancelled = TRUE, !.overlap = "none"]
                      ELSE [tmr EXCEPT !.ctl = "start_arm"]
    /\ last' = [op |-> IF mode = "cancel_loop" THEN "cancel" ELSE "start",
                flow_id |-> 0, item |-> NULL, ret |-> "OK"]
    /\ UNCHANGED <<sched, send_tt_table, send_info, timer_armed, live,
                   heap_overrun, oops, session, rcu, skb, hnd>>

\* one turn of while (cancelled) cancelled = hrtimer_cancel(&timer)
CancelLoop ==
    /\ tmr.ctl \in {"cancel_loop", "start_loop"}
    /\ LET cancelled == hrtimer_cancel(timer_armed, tmr.hpc # "idle")
       IN  /\ cancelled # 0 - 1
           /\ timer_armed' = FALSE
           /\ tmr' = IF cancelled = 1 THEN tmr
                     ELSE IF tmr.ctl = "cancel_loop"
                          THEN [tmr EXCEPT !.ctl = "idle", !.cancelled = TRUE]
                          ELSE [tmr EXCEPT !.ctl = "start_arm"]
    /\ UNCHANGED <<sched, send_tt_table, send_info, hrtimer_flag, live, last,
                   heap_overrun, oops, session, rcu, skb, hnd>>

\* the rest of ovs_vport_start_tt_schedule: dispatch, advance_time,
\* ovs_vport_hrtimer_start
StartArm ==
    /\ tmr.ctl = "start_arm"
    /\ LET si == SendInfo(MacroPeriod(send_tt_table), Dispatched(send_tt_table))
           global_register_time == tmr.clock
           current_time == tmr.clock
           offset_time == si.macro_period
                              - (global_register_time % si.macro_period)
       IN  /\ send_info' = si
           /\ hrtimer_flag' = 1
           /\ timer_armed' = TRUE
           /\ tmr' = [tmr EXCEPT
                         !.expires = current_time + offset_time - tmr.advance_time,
                         !.ctl = "idle", !.cancelled = FALSE, !.overlap = "none",
                         !.idx = 0, !.prev_idx = 0, !.fired = 0, !.ontime = TRUE]
    /\ last' = [op |-> "start", flow_id |-> 0, item |-> NULL, ret |-> "OK"]
    /\ UNCHANGED <<sched, send_tt_table, live, heap_overrun, oops, session, rcu,
                   skb, hnd>>

\* hrtimer_handler from its entry to the end of the busy wait: the clock
\* readings, get_next_time, hrtimer_forward_now, and the clock at which
\* the busy wait lets go
HandlerFire ==
    /\ ~oops
    /\ timer_armed
    /\ tmr.hpc = "idle"
    /\ tmr.expires <= tmr.clock
    /\ tmr.clock <= MaxClock
    /\ LET now == tmr.clock
           r == get_next_time(send_info, now)
           offset_send_time == r.send_time
           send_time == now + offset_send_time
           wait_time == IF r.wait_time = 0
                        THEN offset_send_time + tmr.advance_time
                        ELSE r.wait_time
       IN  /\ tmr' = [tmr EXCEPT
                         !.hpc = "callback",
                         !.expires = hrtimer_forward_now(tmr.expires, now, wait_time),
                         !.clock = IF send_time < now THEN now
                                   ELSE Max2(now, send_time - tmr.advance_time),
                         !.prev_idx = tmr.idx,
                         !.idx = r.idx,
                         !.fired = IF tmr.fired < 2 THEN tmr.fired + 1 ELSE 2,
                         !.ontime = (tmr.ontime /\ now = tmr.expires)]
           /\ last' = [op |-> "expiry", flow_id |-> r.flow_id, item |-> NULL,
                       ret |-> "OK"]
    /\ timer_armed' = FALSE
    /\ UNCHANGED <<sched, send_tt_table, send_info, hrtimer_flag, live,
                   heap_overrun, oops, session, rcu, skb, hnd>>

\* if (schedule_info->hrtimer_flag)
HandlerReadFlag ==
    /\ tmr.hpc = "callback"
    /\ tmr' = [tmr EXCEPT !.hpc = "decided", !.restart = (hrtimer_flag # 0)]
    /\ UNCHANGED <<portVars, session, rcu, skb, hnd>>

\* return HRTIMER_RESTART or HRTIMER_NORESTART; on the former the timer
\* is enqueued again
HandlerReturn ==
    /\ tmr.hpc = "decided"
    /\ timer_armed' = tmr.restart
    /\ tmr' = [tmr EXCEPT !.hpc = "idle"]
    /\ UNCHANGED <<sched, send_tt_table, send_info, hrtimer_flag, live, last,
                   heap_overrun, oops, session, rcu, skb, hnd>>

\* a time unit passes; an enqueued timer fires when its expiry is reached
Tick ==
    /\ tmr.clock < MaxClock
    /\ tmr.hpc = "idle"
    /\ ~(timer_armed /\ tmr.expires <= tmr.clock)
    /\ tmr' = [tmr EXCEPT !.clock = tmr.clock + 1]
    /\ UNCHANGED <<portVars, session, rcu, skb, hnd>>

\* a port whose send table dispatches, inside the arrays, to an ascending
\* timeline; never started
InitTimer ==
    /\ \E c \in [SelectIds -> SelectVariants \cup {NULL}] :
          /\ \E k \in SelectIds : c[k] # NULL
          /\ send_tt_table = InsertEach(NULL, c, 0)
    /\ LET a == Dispatched(send_tt_table)
       IN  /\ ~a.oob
           /\ \A i \in 1 .. a.n - 1 : a.t[i - 1] <= a.t[i]
    /\ send_info = NULL
    /\ sched = TRUE
    /\ hrtimer_flag = 0
    /\ timer_armed = FALSE
    /\ live = Occupied(send_tt_table)
    /\ last = NoOp
    /\ heap_overrun = FALSE
    /\ oops = FALSE
    /\ session = NULL
    /\ rcu = RcuIdle
    /\ skb = NULL
    /\ hnd = NULL
    /\ \E a \in 0 .. MaxAdvance : tmr = TimerIdle(a)

CancelTimer == CancelEnter("cancel_loop")

StartTimer == CancelEnter("start_loop")

NextTimer ==
    \/ CancelTimer
    \/ StartTimer
    \/ CancelLoop
    \/ StartArm
    \/ HandlerFire
    \/ HandlerReadFlag
    \/ HandlerReturn
    \/ Tick

SpecTimer == InitTimer /\ [][NextTimer]_vars

----------------------------------------------------------------------------
(* The send table under RCU: the writer of the control path, step by step,
   against readers inside rcu_read_lock, datapath/tt.c and
   datapath/vport.c *)

RcuFlowIds == {0, MaxRcuFlowId}

\* the readers inside a read-side critical section
InCS == { r \in Readers : rcu.rd[r].pc # "out" }

\* the table an object id points to
TableAt(o) == IF o = 0 THEN NULL ELSE rcu.heap[o].tbl

FreeObjs == { o \in ObjIds : rcu.heap[o].st = "free" }

\* call_rcu(&t->rcu, rcu_free_tt_table) now: the callback runs once every
\* reader that is inside a critical section now has left it
call_rcu(heap, o) ==
    [heap EXCEPT ![o].st = "retired", ![o].waits = InCS]

\* where the writer queues the table it replaces
call_rcu_old(heap, o) == call_rcu(heap, o)

\* ovs_vport_modify_send_tt_item up to the return of tt_table_insert_item;
\* tt_table_realloc has queued the old table by then
RcuInsert(flow_id) ==
    /\ rcu.wpc = "idle"
    /\ LET cur == rcu.port
           cur_tt_table == TableAt(cur)
           item == MkItem(flow_id, CHOOSE v \in EntryVariants : v.buffer_id = 1)
           tmp_tt_table == tt_table_item_insert(cur_tt_table, item, TRUE, TRUE)
       IN  IF InsertGrows(cur_tt_table, flow_id)
           THEN /\ FreeObjs # {}
                /\ LET new == CHOOSE o \in FreeObjs : \A q \in FreeObjs : o <= q
                       h == [rcu.heap EXCEPT ![new] = [st |-> "live",
                                                       tbl |-> tmp_tt_table,
                                                       waits |-> {}]]
                   IN  rcu' = [rcu EXCEPT
                                  !.heap = IF cur = 0 THEN h
                                           ELSE call_rcu_old(h, cur),
                                  !.wpc = "publish", !.wtmp = new,
                                  !.wold = cur,
                                  !.carried = Occupied(cur_tt_table)]
           ELSE rcu' = [rcu EXCEPT !.heap[cur].tbl = tmp_tt_table,
                                   !.wpc = "publish", !.wtmp = cur,
                                   !.wold = 0, !.carried = {}]
    /\ UNCHANGED <<portVars, session, tmr, skb, hnd>>

\* ovs_vport_del_send_tt_item up to the return of tt_table_delete_item
RcuDelete(flow_id) ==
    /\ rcu.wpc = "idle"
    /\ rcu.port # 0
    /\ LET cur == rcu.port
           cur_tt_table == TableAt(cur)
           tmp_tt_table == tt_table_delete_item(cur_tt_table, flow_id, TRUE)
       IN  /\ tmp_tt_table # NULL
           /\ tmp_tt_table.count >= 0 - MaxDeletes
           /\ LET t == DeleteCleared(cur_tt_table, flow_id)
              IN  IF DeleteShrinks(t)
                  THEN /\ FreeObjs # {}
                       /\ LET new == CHOOSE o \in FreeObjs :
                                        \A q \in FreeObjs : o <= q
                              h == [rcu.heap EXCEPT
                                       ![cur].tbl = t,
                                       ![new] = [st |-> "live",
                                                 tbl |-> tmp_tt_table,
                                                 waits |-> {}]]
                          IN  rcu' = [rcu EXCEPT
                                         !.heap = call_rcu_old(h, cur),
                                         !.wpc = "publish", !.wtmp = new,
                                         !.wold = cur,
                                         !.carried = Occupied(cur_tt_table)
                                                         \ {flow_id}]
                  ELSE rcu' = [rcu EXCEPT !.heap[cur].tbl = tmp_tt_table,
                                          !.wpc = "publish", !.wtmp = cur,
                                          !.wold = 0, !.carried = {}]
    /\ UNCHANGED <<portVars, session, tmr, skb, hnd>>

\* ovs_vport_del_send_tt_table up to its call_rcu
RcuDrop ==
    /\ rcu.wpc = "idle"
    /\ rcu.port # 0
    /\ rcu' = [rcu EXCEPT !.heap = call_rcu_old(rcu.heap, rcu.port),
                          !.wpc = "publish", !.wtmp = 0,
                          !.wold = 0, !.carried = {}]
    /\ UNCHANGED <<portVars, session, tmr, skb, hnd>>

\* rcu_assign_pointer(schedule_info->send_tt_table, ...), which ends each
\* of the three operations
RcuPublish ==
    /\ rcu.wpc = "publish"
    /\ rcu' = [rcu EXCEPT !.port = rcu.wtmp, !.wpc = "idle"]
    /\ UNCHANGED <<portVars, session, tmr, skb, hnd>>

\* rcu_free_tt_table, after the grace period of the call_rcu
RcuFree(o) ==
    /\ rcu.heap[o].st = "retired"
    /\ rcu.heap[o].waits = {}
    /\ rcu' = [rcu EXCEPT !.heap[o] = [st |-> "reclaimed", tbl |-> NULL,
                                       waits |-> {}]]
    /\ UNCHANGED <<portVars, session, tmr, skb, hnd>>

\* rcu_read_lock
ReadLock(r) ==
    /\ rcu.rd[r].pc = "out"
    /\ rcu' = [rcu EXCEPT !.rd[r].pc = "in"]
    /\ UNCHANGED <<portVars, session, tmr, skb, hnd>>

\* cur_tt_table = rcu_dereference(schedule_info->send_tt_table)
ReadDeref(r) ==
    /\ rcu.rd[r].pc = "in"
    /\ rcu' = [rcu EXCEPT !.rd[r].pc = "held", !.rd[r].ref = rcu.port]
    /\ UNCHANGED <<portVars, session, tmr, skb, hnd>>

\* tt_table_lookup(cur_tt_table, flow_id) on the table obtained
ReadLookup(r, flow_id) ==
    /\ rcu.rd[r].pc = "held"
    /\ LET ref == rcu.rd[r].ref
           freed == ref # 0 /\ rcu.heap[ref].st = "reclaimed"
           item == IF freed THEN NULL ELSE tt_table_lookup(TableAt(ref), flow_id)
       IN  rcu' = [rcu EXCEPT
                      !.rd[r].pc = "looked",
                      !.uaf = (rcu.uaf \/ freed),
                      !.lost = (rcu.lost \/
                                (/\ ~freed
                                 /\ rcu.wold # 0
                                 /\ ref \in {rcu.wold, rcu.wtmp}
                                 /\ flow_id \in rcu.carried
                                 /\ item = NULL))]
    /\ UNCHANGED <<portVars, session, tmr, skb, hnd>>

\* rcu_read_unlock: the grace periods no longer wait for this reader
ReadUnlock(r) ==
    /\ rcu.rd[r].pc \in {"held", "looked"}
    /\ rcu' = [rcu EXCEPT
                  !.rd[r] = [pc |-> "out", ref |-> 0],
                  !.heap = [o \in ObjIds |->
                              [rcu.heap[o] EXCEPT !.waits = @ \ {r}]]]
    /\ UNCHANGED <<portVars, session, tmr, skb, hnd>>

\* a port with its schedule state allocated and no send table yet
InitRcu ==
    /\ sched = TRUE
    /\ send_tt_table = NULL
    /\ send_info = NULL
    /\ hrtimer_flag = 0
    /\ timer_armed = FALSE
    /\ live = {}
    /\ last = NoOp
    /\ heap_overrun = FALSE
    /\ oops = FALSE
    /\ BeyondPortInit

WriterInsert == \E k \in RcuFlowIds : RcuInsert(k)

WriterDelete == \E k \in RcuFlowIds : RcuDelete(k)

GracePeriodEnds == \E o \in ObjIds : RcuFree(o)

ReaderEnters == \E r \in Readers : ReadLock(r)

ReaderDerefs == \E r \in Readers : ReadDeref(r)

ReaderLooksUp == \E r \in Readers, k \in RcuFlowIds : ReadLookup(r, k)

ReaderLeaves == \E r \in Readers : ReadUnlock(r)

NextRcu ==
    \/ WriterInsert
    \/ WriterDelete
    \/ RcuDrop
    \/ RcuPublish
    \/ GracePeriodEnds
    \/ ReaderEnters
    \/ ReaderDerefs
    \/ ReaderLooksUp
    \/ ReaderLeaves

SpecRcu == InitRcu /\ [][NextRcu]_vars

----------------------------------------------------------------------------
(* Control-plane assembly session, ofproto/tt.c *)

\* largest flow count a flow_receive_start announces
MaxFlowCnt == 2

\* most entries the controller sends to one table
MaxRecvFlows == 3

\* what the caller reads from the local `enum ofperr error`, which no
\* branch assigns: zero, or a word that is an error code
IndeterminateError == {"OK", "OFPERR"}

\* what onf_tt_table.state holds after xmalloc; onf_tt_table_create does
\* not assign it
IndeterminateState == {"TTS_MUTABLE", "TTS_CONST", "GARBAGE"}

\* struct ofputil_tt_flow_mod_msg, the entries of the flow mod messages
TtmVariants ==
    { [port |-> 1, etype |-> 0, flow_id |-> 0, base_offset |-> 0, period |-> 2,
       buffer_id |-> 1, packet_size |-> 64],
      [port |-> 2, etype |-> 1, flow_id |-> 1, base_offset |-> 1, period |-> 3,
       buffer_id |-> 2, packet_size |-> 128] }

\* the switch process died: failed ovs_assert, or a NULL tt_table was
\* dereferenced
Crashed == last.ret \in {"ABORT", "SEGV"}

SessionOp(op, ttm, ret) == [op |-> op, flow_id |-> 0, item |-> ttm, ret |-> ret]

\* st: the word found in the state field of the fresh allocation
onf_tt_table_create(st) ==
    /\ ~Crashed
    /\ IF session # NULL
       THEN /\ last' = SessionOp("create", NULL, "ABORT")
            /\ UNCHANGED session
       ELSE /\ session' = [expect_flows |-> 0, recv_flows |-> 0,
                           max_flows |-> 255, state |-> st,
                           entry_list |-> <<>>]
            /\ last' = SessionOp("create", NULL, "OK")
    /\ UNCHANGED <<portState, tmr, rcu, skb, hnd>>

\* a receive_start that also sets recv_flows back to zero
onf_tt_flow_receive_start_Resets(flow_cnt, error) ==
    /\ ~Crashed
    /\ IF session = NULL
       THEN /\ last' = SessionOp("receive_start", [flow_cnt |-> flow_cnt],
                                 "SEGV")
            /\ UNCHANGED session
       ELSE /\ session' = [session EXCEPT !.expect_flows = flow_cnt,
                                          !.recv_flows = 0,
                                          !.state = "TTS_MUTABLE"]
            /\ last' = SessionOp("receive_start", [flow_cnt |-> flow_cnt],
                                 error)
    /\ UNCHANGED <<portState, tmr, rcu, skb, hnd>>

\* error: the word returned
onf_tt_flow_receive_start(flow_cnt, error) ==
    /\ ~Crashed
    /\ IF session = NULL
       THEN /\ last' = SessionOp("receive_start", [flow_cnt |-> flow_cnt],
                                 "SEGV")
            /\ UNCHANGED session
       ELSE /\ session' = [session EXCEPT !.expect_flows = flow_cnt,
                                          !.state = "TTS_MUTABLE"]
            /\ last' = SessionOp("receive_start", [flow_cnt |-> flow_cnt],
                                 error)
    /\ UNCHANGED <<portState, tmr, rcu, skb, hnd>>

onf_tt_flow_receive_end(error) ==
    /\ ~Crashed
    /\ IF session = NULL
       THEN /\ last' = SessionOp("receive_end", NULL, "SEGV")
            /\ UNCHANGED session
       ELSE /\ session' = [session EXCEPT !.state = "TTS_CONST"]
            /\ last' = SessionOp("receive_end", NULL, error)
    /\ UNCHANGED <<portState, tmr, rcu, skb, hnd>>

onf_tt_table_add_entry(ttm, error) ==
    /\ ~Crashed
    /\ IF session = NULL
       THEN /\ last' = SessionOp("add_entry", ttm, "SEGV")
            /\ UNCHANGED session
       ELSE /\ session.recv_flows < MaxRecvFlows
            /\ session' = [session EXCEPT
                              !.recv_flows = session.recv_flows + 1,
                              !.entry_list = Append(session.entry_list, ttm)]
            /\ last' = SessionOp("add_entry", ttm, error)
    /\ UNCHANGED <<portState, tmr, rcu, skb, hnd>>

CreateTable == \E st \in IndeterminateState : onf_tt_table_create(st)

\* the flow counts a flow_receive_start announces: the small ones, and one
\* above the max_flows of the table
FlowCnts ==
    (0 .. MaxFlowCnt)
        \cup (IF session = NULL THEN {} ELSE {session.max_flows + 1})

BeginAdd ==
    \E n \in FlowCnts, e \in IndeterminateError :
        onf_tt_flow_receive_start(n, e)

AddEntry ==
    \E m \in TtmVariants, e \in IndeterminateError : onf_tt_table_add_entry(m, e)

EndAdd == \E e \in IndeterminateError : onf_tt_flow_receive_end(e)

NextSession == CreateTable \/ BeginAdd \/ AddEntry \/ EndAdd

SpecSession == Init /\ [][NextSession]_vars

----------------------------------------------------------------------------
(* TT header codec, datapath/tt.c *)

\* most bytes of headroom in front of the frame on entry
MaxHeadroom == 4

\* most bytes of UDP payload of the frames; 86 bytes of headers and the
\* largest payload make the frame of 100 bytes
MaxUdpData == 58

ETH_HLEN == 14

ETH_P_IP == 2048

IPPROTO_UDP == 17

\* size of struct tt_header
TT_HLEN == 4

\* EtherType of the native TT frames
ETH_P_TT == 35031

\* UDP destination port of the TRDP frames
TT_PORT == 63000

\* the two bytes a 16-bit word occupies in network byte order
htons(x) == <<(x % 65536) \div 256, x % 256>>

\* the two bytes of a 16-bit word stored without conversion
HostWord(x, little_endian) ==
    IF little_endian THEN <<x % 256, (x % 65536) \div 256>> ELSE htons(x)

\* n bytes of the given value
Fill(n, b) == [i \in 1 .. n |-> b]

\* mem with the bytes bs stored from offset off on
Poke(mem, off, bs) ==
    [i \in 1 .. Len(mem) |->
        IF i - 1 >= off /\ i - 1 < off + Len(bs) THEN bs[i - off] ELSE mem[i]]

\* the n bytes of mem from offset off on
Peek(mem, off, n) == SubSeq(mem, off + 1, off + n)

memmove(mem, dst, from, n) == Poke(mem, dst, Peek(mem, from, n))

\* the flow ids carried in the UDP payload, with different high and low bytes
FlowIdWords == {66, 256, 4660}

\* an Ethernet frame: MAC addresses, EtherType, 20 bytes of IPv4 header with
\* the protocol at byte 9, 8 bytes of UDP header with the destination port
\* at bytes 2 and 3, then the UDP payload, which starts with the flow id
EthFrame(h_proto, protocol, dest, flow_id, n) ==
    <<170, 187, 204, 221, 238, 255>> \o <<17, 34, 51, 68, 85, 102>>
        \o htons(h_proto)
        \o <<69>> \o Fill(8, 0) \o <<protocol>> \o Fill(10, 0)
        \o <<0, 0>> \o htons(dest) \o Fill(4, 0)
        \o htons(flow_id) \o Fill(n - 2, 1)

\* the sk_buff of a frame behind the given headroom, as the datapath hands
\* it to the actions: data at the MAC header
MkSkb(frame, headroom, cloned) ==
    [head |-> Fill(headroom, 0) \o frame,
     data |-> headroom, length |-> Len(frame),
     mac_header |-> headroom, mac_len |-> ETH_HLEN,
     network_header |-> headroom + ETH_HLEN,
     transport_header |-> headroom + ETH_HLEN + 20,
     cloned |-> cloned]

\* the bytes of the frame, skb->data up to skb->len
Frame(b) == Peek(b.head, b.data, b.length)

udp_port_is_tt(port) == port = htons(TT_PORT)

eth_p_tt(eth_type) == eth_type = htons(ETH_P_TT)

\* offset of the TT header
skb_tt_header(b) == b.mac_header + b.mac_len

\* eth_hdr(skb)->h_proto
h_proto(b) == Peek(b.head, b.mac_header + 12, 2)

is_trdp_packet(b) ==
    /\ h_proto(b) = htons(ETH_P_IP)
    /\ Peek(b.head, b.network_header + 9, 1) = <<IPPROTO_UDP>>
    /\ udp_port_is_tt(Peek(b.head, b.transport_header + 2, 2))

is_tt_packet(b) == eth_p_tt(h_proto(b))

\* whether skb_cow_head(skb, TT_HLEN) has to reallocate the head
CowReallocates(b) == b.cloned \/ b.data < TT_HLEN

\* pskb_expand_head: a private head with TT_HLEN more bytes of headroom
pskb_expand_head(b) ==
    [b EXCEPT !.head = Fill(TT_HLEN, 0) \o b.head,
              !.data = @ + TT_HLEN,
              !.mac_header = @ + TT_HLEN,
              !.network_header = @ + TT_HLEN,
              !.transport_header = @ + TT_HLEN,
              !.cloned = FALSE]

\* pop_tt that leaves the EtherType of the TT frame in place
pop_tt_KeepsProto(b) ==
    LET moved == memmove(b.head, b.mac_header + TT_HLEN, b.mac_header,
                         b.mac_len)
    IN  [b EXCEPT !.head = moved,
                  !.data = @ + TT_HLEN,
                  !.length = @ - TT_HLEN,
                  !.mac_header = b.data + TT_HLEN]

\* pop_tt after skb_ensure_writable has succeeded
pop_tt(b) ==
    LET moved == memmove(b.head, b.mac_header + TT_HLEN, b.mac_header,
                         b.mac_len)
        pulled == [b EXCEPT !.head = moved,
                            !.data = @ + TT_HLEN,
                            !.length = @ - TT_HLEN,
                            !.mac_header = b.data + TT_HLEN]
        hdr == skb_tt_header(pulled) - ETH_HLEN
    IN  [pulled EXCEPT !.head = Poke(moved, hdr + 12, htons(ETH_P_IP))]

\* push_tt after skb_cow_head has succeeded; flow_id: the two bytes read
\* through the pointer, little_endian: the byte order of the host
push_tt(b, flow_id, little_endian) ==
    LET c == IF CowReallocates(b) THEN pskb_expand_head(b) ELSE b
        pushed == [c EXCEPT !.data = @ - TT_HLEN, !.length = @ + TT_HLEN]
        moved == memmove(c.head, c.mac_header - TT_HLEN, c.mac_header,
                         c.mac_len)
        reset == [pushed EXCEPT !.head = moved, !.mac_header = pushed.data]
        typed == Poke(moved, reset.mac_header + 12, htons(ETH_P_TT))
        tt_hdr == skb_tt_header(reset)
        with_id == Poke(typed, tt_hdr, flow_id)
    IN  [reset EXCEPT
            !.head = Poke(with_id, tt_hdr + 2,
                          HostWord(reset.length - 4, little_endian))]

\* the state of the codec before a frame is handed to it
CodecIn(b, little_endian) ==
    [buf |-> b, stage |-> "in", ret |-> "OK", little_endian |-> little_endian,
     orig |-> Frame(b), flow_id |-> <<0, 0>>, mid |-> <<>>, dangling |-> FALSE]

\* push_tt(skb, flow_id) with the given bytes behind the pointer; dangling:
\* the pointer leads into the head that skb_cow_head has released
PushStep(flow_id, dangling, ok) ==
    /\ skb.stage = "in"
    /\ IF CowReallocates(skb.buf) /\ ~ok
       THEN skb' = [skb EXCEPT !.stage = "failed", !.ret = "ENOMEM"]
       ELSE \E read \in (IF dangling THEN { htons(w) : w \in FlowIdWords }
                                     ELSE {flow_id}) :
               LET b == push_tt(skb.buf, read, skb.little_endian)
               IN  skb' = [skb EXCEPT !.buf = b, !.stage = "pushed",
                                      !.ret = "OK", !.flow_id = flow_id,
                                      !.mid = Frame(b),
                                      !.dangling = dangling]
    /\ UNCHANGED <<portVars, session, tmr, rcu, hnd>>

\* trdp_to_tt: the flow id is read through a pointer into the UDP payload
\* of the same skb; the head it points into is released when skb_cow_head
\* reallocates an skb that is not shared
trdp_to_tt(ok) ==
    /\ is_trdp_packet(skb.buf)
    /\ PushStep(Peek(skb.buf.head, skb.buf.transport_header + 8, 2),
                CowReallocates(skb.buf) /\ ~skb.buf.cloned, ok)

\* push_tt applied to a frame and a flow id of the caller's own
PushTt(w, ok) == PushStep(htons(w), FALSE, ok)

\* tt_to_trdp; skb_ensure_writable copies the head of a shared skb and
\* fails when it cannot
tt_to_trdp(ok) ==
    /\ skb.stage = "pushed"
    /\ IF skb.buf.cloned /\ ~ok
       THEN skb' = [skb EXCEPT !.stage = "failed", !.ret = "ENOMEM"]
       ELSE skb' = [skb EXCEPT !.buf = pop_tt([skb.buf EXCEPT !.cloned = FALSE]),
                               !.stage = "popped", !.ret = "OK"]
    /\ UNCHANGED <<portVars, session, tmr, rcu, hnd>>

\* a frame arrives: IPv4 or another EtherType, UDP or another protocol,
\* TT_PORT or another port, with or without headroom, shared or not
InitCodec ==
    /\ sched = FALSE
    /\ send_tt_table = NULL
    /\ send_info = NULL
    /\ hrtimer_flag = 0
    /\ timer_armed = FALSE
    /\ live = {}
    /\ last = NoOp
    /\ heap_overrun = FALSE
    /\ oops = FALSE
    /\ session = NULL
    /\ tmr = TimerIdle(0)
    /\ rcu = RcuIdle
    /\ hnd = NULL
    /\ \E h_p \in {ETH_P_IP, ETH_P_IP + 6},
          protocol \in {IPPROTO_UDP, IPPROTO_UDP - 11},
          dest \in {TT_PORT, TT_PORT + 1},
          w \in FlowIdWords,
          n \in {2, MaxUdpData},
          headroom \in {0, MaxHeadroom},
          cloned \in BOOLEAN,
          little_endian \in BOOLEAN :
            skb = CodecIn(MkSkb(EthFrame(h_p, protocol, dest, w, n),
                                headroom, cloned),
                          little_endian)

TrdpToTt == \E ok \in BOOLEAN : trdp_to_tt(ok)

PushDirect == \E w \in FlowIdWords, ok \in BOOLEAN : PushTt(w, ok)

TtToTrdp == \E ok \in BOOLEAN : tt_to_trdp(ok)

NextCodec == TrdpToTt \/ PushDirect \/ TtToTrdp

SpecCodec == InitCodec /\ [][NextCodec]_vars

----------------------------------------------------------------------------
(* The staging buffer of the datapath: the detach in the timer handler
   against the ingress path, datapath/vport.c *)

\* most frames the ingress path stages in one run
MaxFrames == 3

\* largest flow id with a slot in tt_buffer
MaxBufId == 1

BufIds == 0 .. MaxBufId

FrameIds == 1 .. MaxFrames

\* empty slots, nothing staged, the handler outside the detach; frame 0
\* stands for the NULL pointer
BufferIdle ==
    [tt_buffer |-> [k \in BufIds |-> 0],
     staged |-> 0,
     fate |-> [f \in FrameIds |-> "none"],
     pc |-> "idle", flow_id |-> 0, skb |-> 0]

\* the ingress path stores the next frame in the slot of its flow
IngressStage(k) ==
    /\ hnd.staged < MaxFrames
    /\ LET f == hnd.staged + 1
           old == hnd.tt_buffer[k]
       IN  hnd' = [hnd EXCEPT
                      !.tt_buffer[k] = f,
                      !.staged = f,
                      !.fate = [g \in FrameIds |->
                                   IF g = f THEN "slot"
                                   ELSE IF g = old THEN "replaced"
                                   ELSE hnd.fate[g]]]
    /\ UNCHANGED <<portVars, session, tmr, rcu, skb>>

\* skb = vport->dp->tt_buffer[flow_id]
HandlerLoad(k) ==
    /\ hnd.pc = "idle"
    /\ hnd' = [hnd EXCEPT !.pc = "loaded", !.flow_id = k,
                          !.skb = hnd.tt_buffer[k]]
    /\ UNCHANGED <<portVars, session, tmr, rcu, skb>>

\* vport->dp->tt_buffer[flow_id] = NULL; the handler goes on with the
\* frame it loaded
HandlerStore ==
    /\ hnd.pc = "loaded"
    /\ LET cur == hnd.tt_buffer[hnd.flow_id]
       IN  hnd' = [hnd EXCEPT
                      !.tt_buffer[hnd.flow_id] = 0,
                      !.pc = "idle", !.skb = 0,
                      !.fate = [g \in FrameIds |->
                                   IF g = hnd.skb THEN "taken"
                                   ELSE IF g = cur THEN "lost"
                                   ELSE hnd.fate[g]]]
    /\ UNCHANGED <<portVars, session, tmr, rcu, skb>>

InitBuffer ==
    /\ sched = TRUE
    /\ send_tt_table = NULL
    /\ send_info = NULL
    /\ hrtimer_flag = 0
    /\ timer_armed = FALSE
    /\ live = {}
    /\ last = NoOp
    /\ heap_overrun = FALSE
    /\ oops = FALSE
    /\ session = NULL
    /\ tmr = TimerIdle(0)
    /\ rcu = RcuIdle
    /\ skb = NULL
    /\ hnd = BufferIdle

IngressStages == \E k \in BufIds : IngressStage(k)

HandlerLoads == \E k \in BufIds : HandlerLoad(k)

NextBuffer == IngressStages \/ HandlerLoads \/ HandlerStore

SpecBuffer == InitBuffer /\ [][NextBuffer]_vars

----------------------------------------------------------------------------
(* One expiry of the timer from entry to return: selection, detach, miss
   test, busy wait, emission and restart, datapath/vport.c *)

\* most time units that pass between two clock readings of the handler
MaxLag == 1

\* a frame staged for flow k, with the timestamp of its arrival
StagedFrame(k) == [arrive_stamp |-> 0, flow_id |-> k]

\* before an expiry: the slots of the datapath's tt_buffer, if it has one
ExpiryIdle(has_buffer, tt_buffer) ==
    [has_buffer |-> has_buffer, tt_buffer |-> tt_buffer,
     ran |-> FALSE, miss |-> FALSE, flow_id |-> 0,
     skb |-> NULL, out_skb |-> NULL, spin |-> 0, current_time |-> 0]

\* if (send_time < TIMESPEC_TO_NSEC(current_time))
IsMiss(send_time, current_time) == send_time < current_time

\* every detached frame passes, whatever its age
IsFresh_Always(frame, current_time, macro_period) == TRUE

\* TIMESPEC_TO_NSEC(current_time) - TIMESPEC_TO_NSEC(arrive_stamp) <=
\* send_info->macro_period
IsFresh(frame, current_time, macro_period) ==
    current_time - frame.arrive_stamp <= macro_period

\* the frame is cloned and sent whatever the miss test said
Emits_OnMiss(miss, frame, current_time, macro_period) ==
    /\ frame # NULL
    /\ IsFresh(frame, current_time, macro_period)

\* the else branch of the miss test: a frame was detached and its
\* timestamp is at most one macro period old
Emits(miss, frame, current_time, macro_period) ==
    /\ ~miss
    /\ frame # NULL
    /\ IsFresh(frame, current_time, macro_period)

\* hrtimer_handler; lag, lag2: the time between global_time_read and the
\* first getnstimeofday, and between the first and the second
hrtimer_handler(global_register_time, lag, lag2) ==
    /\ ~oops
    /\ timer_armed
    /\ send_info # NULL
    /\ LET current_time == global_register_time + lag
           r == get_next_time(send_info, global_register_time)
           offset_send_time == r.send_time
           send_time == current_time + offset_send_time
           wait_time == IF r.wait_time = 0
                        THEN offset_send_time + tmr.advance_time
                        ELSE r.wait_time
           frame == IF hnd.has_buffer THEN hnd.tt_buffer[r.flow_id] ELSE NULL
           now == current_time + lag2
           miss == IsMiss(send_time, now)
           spun == IF miss THEN now
                   ELSE Max2(now, send_time - tmr.advance_time)
           sent == Emits(miss, frame, spun, send_info.macro_period)
       IN  /\ hnd' = [hnd EXCEPT
                         !.tt_buffer = IF hnd.has_buffer
                                       THEN [hnd.tt_buffer EXCEPT
                                                ![r.flow_id] = NULL]
                                       ELSE hnd.tt_buffer,
                         !.ran = TRUE, !.miss = miss, !.flow_id = r.flow_id,
                         !.skb = frame,
                         !.out_skb = IF sent THEN frame ELSE NULL,
                         !.spin = spun - now,
                         !.current_time = spun]
           /\ tmr' = [tmr EXCEPT
                         !.expires = hrtimer_forward_now(tmr.expires,
                                                         current_time,
                                                         wait_time)]
           /\ last' = [op |-> "expiry", flow_id |-> r.flow_id, item |-> NULL,
                       ret |-> "OK"]
    /\ timer_armed' = (hrtimer_flag # 0)
    /\ UNCHANGED <<sched, send_tt_table, send_info, hrtimer_flag, live,
                   heap_overrun, oops, session, rcu, skb>>

\* a cancel clears the flag; the expiry that follows is the last
CancelFlag ==
    /\ hrtimer_flag = 1
    /\ hrtimer_flag' = 0
    /\ UNCHANGED <<sched, send_tt_table, send_info, timer_armed, live, last,
                   heap_overrun, oops, session, tmr, rcu, skb, hnd>>

\* a started port with an ascending timeline, its timer enqueued, a frame
\* staged in every slot or in none
InitExpiry ==
    /\ \E c \in [SelectIds -> SelectVariants \cup {NULL}] :
          /\ \E k \in SelectIds : c[k] # NULL
          /\ send_tt_table = InsertEach(NULL, c, 0)
    /\ LET a == Dispatched(send_tt_table)
       IN  /\ ~a.oob
           /\ \A i \in 1 .. a.n - 1 : a.t[i - 1] <= a.t[i]
    /\ send_info = SendInfo(MacroPeriod(send_tt_table), Dispatched(send_tt_table))
    /\ sched = TRUE
    /\ hrtimer_flag = 1
    /\ timer_armed = TRUE
    /\ live = Occupied(send_tt_table)
    /\ last = [op |-> "start", flow_id |-> 0, item |-> NULL, ret |-> "OK"]
    /\ heap_overrun = FALSE
    /\ oops = FALSE
    /\ session = NULL
    /\ rcu = RcuIdle
    /\ skb = NULL
    /\ \E a \in 0 .. MaxAdvance : tmr = TimerIdle(a)
    /\ \E has_buffer \in BOOLEAN, staged \in BOOLEAN :
            /\ ~has_buffer => ~staged
            /\ hnd = ExpiryIdle(has_buffer,
                                [k \in SelectIds |-> IF staged
                                                     THEN StagedFrame(k)
                                                     ELSE NULL])

\* the first expiry after the start, at any clock reading
Expiry ==
    /\ ~hnd.ran
    /\ \E g \in 0 .. MaxGlobalTime, lag \in 0 .. MaxLag,
          lag2 \in 0 .. MaxLag :
           hrtimer_handler(g, lag, lag2)

NextExpiry == Expiry \/ CancelFlag

SpecExpiry == InitExpiry /\ [][NextExpiry]_vars

----------------------------------------------------------------------------
(* Flow table properties, checked under Spec. *)

\* C1: after a successful insert of an entry with flow_id k into any table
\* (absent, or with k below, at or above the capacity), lookup(k) on the
\* resulting table yields an entry with the inserted flow_id, period,
\* offset, packet size and buffer id.
C1_InsertThenLookup ==
    (last.op = "insert" /\ last.ret = "OK")
        => tt_table_lookup(send_tt_table, last.flow_id) = last.item

\* C2: count(table) equals the number of occupied slots, which is the
\* number of distinct flow ids inserted and not deleted since.
C2_CountIsOccupied ==
    send_tt_table # NULL
        => /\ tt_table_num_items(send_tt_table)
                  = Cardinality(Occupied(send_tt_table))
           /\ Cardinality(Occupied(send_tt_table)) = Cardinality(live)

\* C3: the capacity is at least TT_TABLE_SIZE_MIN and strictly greater than
\* the flow id of every entry inserted and not deleted, also after shrinks.
C3_CapacityCoversLive ==
    send_tt_table # NULL
        => /\ send_tt_table.max >= TT_TABLE_SIZE_MIN
           /\ \A k \in live : k < send_tt_table.max

\* C4: a successful delete of a present id k leaves lookup(k) empty and
\* leaves the lookup of every other id that was present unchanged, also
\* when the delete shrinks the table.
C4_DeleteFrame ==
    [][ (/\ last'.op = "delete"
         /\ last'.ret = "OK"
         /\ tt_table_lookup(send_tt_table, last'.flow_id) # NULL)
          => /\ tt_table_lookup(send_tt_table', last'.flow_id) = NULL
             /\ \A j \in FlowIds \ {last'.flow_id} :
                   tt_table_lookup(send_tt_table, j) # NULL
                     => tt_table_lookup(send_tt_table', j)
                            = tt_table_lookup(send_tt_table, j) ]_vars

\* C5: a delete changes the capacity only when, with the slot cleared, the
\* capacity is at least 2*TT_TABLE_SIZE_MIN and the number of occupied
\* slots is at most capacity/3, and then the new capacity is capacity/2.
C5_ShrinkOnlyWhenSparse ==
    [][ (/\ last'.op = "delete"
         /\ send_tt_table # NULL
         /\ send_tt_table' # NULL
         /\ send_tt_table'.max # send_tt_table.max)
          => /\ send_tt_table.max >= 2 * TT_TABLE_SIZE_MIN
             /\ Cardinality(Occupied(send_tt_table) \ {last'.flow_id})
                    <= send_tt_table.max \div 3
             /\ send_tt_table'.max = send_tt_table.max \div 2 ]_vars

\* C6: a delete of a flow id that is not in the table (empty slot, or id at
\* or beyond the capacity) leaves capacity, count and every slot as they
\* were, and the port keeps its table.
C6_DeleteMissingNoOp ==
    [][ (/\ last'.op = "delete"
         /\ tt_table_lookup(send_tt_table, last'.flow_id) = NULL)
          => /\ send_tt_table' = send_tt_table
             /\ sched' = sched ]_vars

----------------------------------------------------------------------------
(* Dispatcher properties, checked under SpecDispatch. *)

\* the circles of the items present in a table
Periods(t) == { t.tt_items[i].circle : i \in Occupied(t) }

\* m is the least positive value every p in S divides
IsLeastCommonMultiple(m, S) ==
    /\ m > 0
    /\ \A p \in S : m % p = 0
    /\ \A d \in 1 .. m - 1 : \E p \in S : d % p # 0

\* the cells of an installed send cache
CacheCells == 0 .. send_info.send_cache.size - 1

\* C7: the times array of an installed send cache is ascending:
\* times[i-1] <= times[i] for 0 < i < size.  Stated for the runs in which
\* the sort stayed inside the two arrays.
C7_TimesAscending ==
    (send_info # NULL /\ ~heap_overrun)
        => \A i \in CacheCells \ {0} :
              send_info.send_cache.send_times[i - 1]
                  <= send_info.send_cache.send_times[i]

\* C8: size is the sum over the entries of macro_period/period, every entry
\* appears macro_period/period times in flow_ids, every pair
\* (times[i], flow_ids[i]) is (offset + k*period, flow_id) of some entry
\* with k >= 0, and every times[i] is below macro_period.
C8_TimelineIsExpansion ==
    send_info # NULL
        => LET c  == send_info.send_cache
               mp == send_info.macro_period
               t  == send_tt_table
           IN  /\ c.size = SizeFrom(t, 0, mp)
               /\ \A e \in Occupied(t) :
                     Cardinality({ i \in CacheCells : c.flow_ids[i] = e })
                         = mp \div t.tt_items[e].circle
               /\ \A i \in CacheCells :
                     /\ c.send_times[i] < mp
                     /\ \E e \in Occupied(t) :
                           /\ c.flow_ids[i] = t.tt_items[e].flow_id
                           /\ c.send_times[i] >= t.tt_items[e].time
                           /\ (c.send_times[i] - t.tt_items[e].time)
                                  % t.tt_items[e].circle = 0

C10_EmptyStartFails ==
    (last.op = "start" /\ Occupied(send_tt_table) = {})
        => /\ last.ret \in {"EINVAL", "ENOMEM"}
           /\ send_info = NULL
           /\ hrtimer_flag = 0
           /\ ~timer_armed

\* the collision scan of dispatch over the arrays it installs: one
\* "time error" line for every cell whose time is not above the time of
\* the cell before it
TimeErrors(c) ==
    { [time |-> c.send_times[i], flow_id1 |-> c.flow_ids[i - 1],
       flow_id2 |-> c.flow_ids[i]] :
        i \in { j \in 1 .. c.size - 1 : c.send_times[j] <= c.send_times[j - 1] } }

\* the instants of the macro period that two entries of a table both hit
CollidingInstants(t) ==
    IF t = NULL THEN {}
    ELSE { x \in 0 .. MacroPeriod(t) - 1 :
             \E e1, e2 \in Occupied(t) :
                /\ e1 # e2
                /\ x >= t.tt_items[e1].time
                /\ (x - t.tt_items[e1].time) % t.tt_items[e1].circle = 0
                /\ x >= t.tt_items[e2].time
                /\ (x - t.tt_items[e2].time) % t.tt_items[e2].circle = 0 }

\* C11: when two expanded instants of the send table coincide, a start that
\* has the table and the memory it needs reports a collision for that
\* instant and succeeds: the send cache holding both instants is installed
\* and the timer is armed.
C11_CollisionStillInstalled ==
    (/\ last.op = "start"
     /\ last.ret # "EINVAL"
     /\ CollidingInstants(send_tt_table) # {})
        => /\ last.ret = "OK"
           /\ send_info # NULL
           /\ hrtimer_flag = 1
           /\ timer_armed
           /\ \A x \in CollidingInstants(send_tt_table) :
                 /\ Cardinality({ i \in CacheCells :
                                    send_info.send_cache.send_times[i] = x }) >= 2
                 /\ \E r \in TimeErrors(send_info.send_cache) : r.time = x

----------------------------------------------------------------------------
(* Control-plane session properties, checked under SpecSession. *)

\* C19: EndAdd succeeds and moves the session to CONST only when the state
\* is MUTABLE and received = expected; in every other case it fails and
\* leaves the state as it was, so CONST implies received = expected.
C19_EndAddOnlyWhenComplete ==
    [][ (last'.op = "receive_end" /\ session # NULL)
          => IF /\ session.state = "TTS_MUTABLE"
                /\ session.recv_flows = session.expect_flows
             THEN last'.ret = "OK" /\ session'.state = "TTS_CONST"
             ELSE last'.ret = "OFPERR" /\ session'.state = session.state ]_vars

\* C20: AddEntry is accepted only while a session exists in state MUTABLE,
\* and then appends the entry and adds one to received; in any other state
\* it fails and leaves entry_list and received unchanged.
C20_AddEntryOnlyWhenMutable ==
    [][ last'.op = "add_entry"
          => IF session # NULL /\ session.state = "TTS_MUTABLE"
             THEN /\ last'.ret = "OK"
                  /\ session'.entry_list = Append(session.entry_list, last'.item)
                  /\ session'.recv_flows = session.recv_flows + 1
             ELSE /\ last'.ret = "OFPERR"
                  /\ session' = session ]_vars

\* C21: BeginAdd(expected) with expected > max_flows fails with TooMany and
\* leaves the session unchanged: expected, received, state and entry_list
\* keep their values.
C21_TooManyLeavesSession ==
    [][ (/\ last'.op = "receive_start"
         /\ session # NULL
         /\ last'.item.flow_cnt > session.max_flows)
          => (last'.ret = "OFPERR" /\ session' = session) ]_vars

\* C22: an accepted BeginAdd(n) starts a session with state MUTABLE,
\* expected = n and received = 0, whatever an earlier session has received,
\* and no BeginAdd is accepted while a MUTABLE session is open.
C22_BeginAddStartsFresh ==
    [][ (/\ last'.op = "receive_start"
         /\ session # NULL
         /\ last'.ret = "OK")
          => (/\ session.state # "TTS_MUTABLE"
              /\ session'.state = "TTS_MUTABLE"
              /\ session'.expect_flows = last'.item.flow_cnt
              /\ session'.recv_flows = 0) ]_vars

\* the entries of the send direction
SendEntries ==
    { i \in 1 .. Len(session.entry_list) : session.entry_list[i].etype = 0 }

\* C23: after BeginAdd(n), n accepted AddEntry and a successful EndAdd the
\* session is CONST and every accumulated entry is found by a lookup of its
\* flow_id in the table of its port and direction.
C23_EndAddCommits ==
    (/\ session # NULL
     /\ last.op = "receive_end"
     /\ last.ret = "OK"
     /\ session.expect_flows > 0
     /\ session.recv_flows = session.expect_flows
     /\ Len(session.entry_list) = session.expect_flows)
        => (/\ session.state = "TTS_CONST"
            /\ \A i \in SendEntries :
                  tt_table_lookup(send_tt_table,
                                  session.entry_list[i].flow_id) # NULL)

----------------------------------------------------------------------------
(* Properties of the selection of the next instant, checked under
   SpecSelect. *)

\* the times of a send cache are strictly ascending
StrictlyAscending(c) ==
    \A i \in 1 .. c.size - 1 : c.send_times[i - 1] < c.send_times[i]

\* the cells of a cache whose time is at most t, and those after t
CellsUpTo(c, t) == { i \in 0 .. c.size - 1 : c.send_times[i] <= t }
CellsAfter(c, t) == { i \in 0 .. c.size - 1 : c.send_times[i] > t }

SetMax(S) == CHOOSE x \in S : \A y \in S : y <= x
SetMin(S) == CHOOSE x \in S : \A y \in S : x <= y

C13_SendTimeOffset ==
    (last.op = "next" /\ last.ret = "OK")
        => LET mp == send_info.macro_period
               mod_time == last.item.global_register_time % mp
           IN  last.item.send_time - last.item.current_time
                  = (send_info.send_cache.send_times[last.item.idx] + mp - mod_time)
                        % mp

\* C14: the wait returned for the selected idx is
\* times[(idx+1) mod size] - times[idx], plus macro_period when
\* (idx+1) mod size = 0; for a single-entry schedule it is macro_period, it
\* is 0 only when two consecutive instants collide, and it is never above
\* macro_period.
C14_WaitToNextInstant ==
    (last.op = "next" /\ last.ret = "OK")
        => LET c    == send_info.send_cache
               mp   == send_info.macro_period
               idx  == last.item.idx
               nxt  == (idx + 1) % c.size
               wait == last.item.wait_time
           IN  /\ wait = c.send_times[nxt] - c.send_times[idx]
                           + (IF nxt = 0 THEN mp ELSE 0)
               /\ c.size = 1 => wait = mp
               /\ wait = 0 => (nxt # 0 /\ c.send_times[nxt] = c.send_times[idx])
               /\ wait >= 0
               /\ wait <= mp

----------------------------------------------------------------------------
(* Timer loop properties, checked under SpecTimer. *)

\* C15: once cancel has returned, and until a later start arms the timer,
\* no handler is executing, none is pending, and is_running returns false,
\* whatever the handler was doing when cancel was called.
C15_QuietAfterCancel ==
    tmr.cancelled
        => /\ tmr.hpc = "idle"
           /\ ~timer_armed
           /\ ~(sched /\ hrtimer_flag = 1)

\* cancel has returned after it was called while a handler that had
\* already decided to restart the timer was still running
C15_Witness ==
    /\ tmr.cancelled
    /\ tmr.overlap = "decided"
    /\ tmr.restart
    /\ tmr.fired > 0

\* C16: while the timer fires at its armed times, an expiry that follows
\* the expiry that selected index i selects (i+1) mod size.
C16_SelectsInTimelineOrder ==
    (tmr.fired >= 2 /\ tmr.ontime)
        => tmr.idx = (tmr.prev_idx + 1) % send_info.send_cache.size

----------------------------------------------------------------------------
(* Reader properties, checked under SpecRcu. *)

\* C17: no reader dereferences a flow table after it has been reclaimed: a
\* replaced table is reclaimed only after every reader that obtained it
\* from the port has left its critical section, for insert with growth,
\* delete with shrink and drop of the table.
C17_NoUseAfterReclaim ==
    /\ ~rcu.uaf
    /\ \A r \in Readers :
          (rcu.rd[r].pc = "held" /\ rcu.rd[r].ref # 0)
              => rcu.heap[rcu.rd[r].ref].st # "reclaimed"

\* C18: a lookup that runs on the old or on the new table of a
\* reallocating insert or delete finds every flow id that is live both
\* before and after the operation.
C18_LookupSeesCarriedOver ==
    ~rcu.lost

----------------------------------------------------------------------------
(* Header codec properties, checked under SpecCodec. *)

\* C24: for every IPv4 frame and every flow id, pop_tt after push_tt gives
\* back the frame byte for byte, and the frame in between has EtherType
\* ETH_P_TT, so it classifies as TT and not as TRDP.
C24_PushPopRoundTrip ==
    /\ (skb.stage \in {"pushed", "popped"})
          => (/\ Peek(skb.mid, 12, 2) = htons(ETH_P_TT)
              /\ skb.stage = "pushed"
                    => is_tt_packet(skb.buf) /\ ~is_trdp_packet(skb.buf))
    /\ (skb.stage = "popped" /\ Peek(skb.orig, 12, 2) = htons(ETH_P_IP))
          => Frame(skb.buf) = skb.orig

\* an IPv4 frame has gone through push_tt and pop_tt
C24_Witness ==
    /\ skb.stage = "popped"
    /\ Peek(skb.orig, 12, 2) = htons(ETH_P_IP)
    /\ Len(skb.orig) = ETH_HLEN + 28 + MaxUdpData

\* C25: push_tt on a frame of length L with flow id f writes after the MAC
\* header f in network byte order and then L - 4 in network byte order.
C25_PushWritesHeader ==
    skb.stage = "pushed"
        => (/\ Peek(skb.mid, ETH_HLEN, 2) = skb.flow_id
            /\ Peek(skb.mid, ETH_HLEN + 2, 2) = htons(Len(skb.orig) - 4))

----------------------------------------------------------------------------
(* Properties of the schedule of a port, checked under SpecLifecycle. *)

\* C26: whenever the timer of a port is armed with the active flag set, the
\* send_info of the port with its send cache exists; the drop of the send
\* table does not leave an armed timer without it.
C26_ArmedHasSendInfo ==
    (timer_armed /\ hrtimer_flag = 1) => send_info # NULL

----------------------------------------------------------------------------
(* The handler against the rebuild of the send cache, checked under
   SpecTimer. *)

\* C28: a handler invocation never reads a send cache that a dispatcher
\* run is rebuilding: from the return of the cancel at the head of start
\* until the timer is armed again, the span in which dispatch rewrites
\* times, flow_ids, size and macro_period, no handler is running and the
\* timer is not enqueued, also when start found the timer armed.
C28_NoHandlerDuringRebuild ==
    tmr.ctl = "start_arm" => (tmr.hpc = "idle" /\ ~timer_armed)

\* start has cancelled a timer whose handler was running when start was
\* called, and is about to rebuild the cache
C28_Witness ==
    /\ tmr.ctl = "start_arm"
    /\ tmr.overlap \in {"callback", "decided"}
    /\ send_info # NULL

----------------------------------------------------------------------------
(* Staging buffer properties, checked under SpecBuffer. *)

\* C27: under every interleaving of the ingress path with the detach of
\* the handler, a staged frame is taken by one handler invocation, or is
\* still in its slot, or was replaced by a later staged frame; no handler
\* overwrites with NULL a frame it did not take.
C27_DetachIsExchange ==
    \A f \in FrameIds : hnd.fate[f] # "lost"

----------------------------------------------------------------------------
(* The busy wait of the handler, checked under SpecTimer. *)

\* C29: in a handler invocation that is not a miss the busy wait lasts at
\* most advance_time, that is, the selected send time lies at most twice
\* advance_time after the clock reading at the entry of the handler, at
\* the first expiry after start and at the wrap of the macro period too.
C29_BusyWaitBounded ==
    [][ (tmr.hpc = "idle" /\ tmr'.hpc = "callback")
          => tmr'.clock - tmr.clock <= tmr.advance_time ]_vars

----------------------------------------------------------------------------
(* Properties of one expiry, checked under SpecExpiry. *)

\* C30: a handler invocation that finds the selected send time earlier than
\* the clock emits no frame, leaves the slot of the selected flow empty,
\* and the timer is enqueued again as long as the active flag is set.
C30_MissDropsAndRestarts ==
    (hnd.ran /\ hnd.miss)
        => (/\ hnd.out_skb = NULL
            /\ hnd.has_buffer => hnd.tt_buffer[hnd.flow_id] = NULL
            /\ hrtimer_flag = 1 => timer_armed)

\* a miss on a flow whose frame was staged, with the flag set
C30_Witness ==
    /\ hnd.ran
    /\ hnd.miss
    /\ hnd.skb # NULL
    /\ hrtimer_flag = 1
    /\ timer_armed

\* C31: a handler invocation emits at most one frame, and only the frame
\* that was staged in the slot of the flow selected by get_next_time, and
\* only if that frame's timestamp is at most one macro period before the
\* handler's last clock reading; when the handler returns the slot of the
\* selected flow is empty, whether or not the frame was emitted.
C31_EmitsSelectedFreshFrame ==
    hnd.ran
        => (/\ hnd.out_skb # NULL
                 => (/\ hnd.out_skb = hnd.skb
                     /\ hnd.out_skb.flow_id = hnd.flow_id
                     /\ hnd.current_time - hnd.out_skb.arrive_stamp
                            <= send_info.macro_period)
            /\ hnd.has_buffer => hnd.tt_buffer[hnd.flow_id] = NULL)

\* an expiry that sent the frame of the selected flow, staged one full
\* macro period before
C31_Witness ==
    /\ hnd.ran
    /\ hnd.out_skb # NULL
    /\ hnd.out_skb.flow_id = hnd.flow_id
    /\ hnd.current_time - hnd.out_skb.arrive_stamp = send_info.macro_period
    /\ hnd.tt_buffer[hnd.flow_id] = NULL

----------------------------------------------------------------------------
(* Failed inserts, checked under Spec. *)

\* C32: when an insert into the send table fails, the port's schedule state
\* is freed if and only if this call allocated it; a schedule state that
\* existed before the call is left unchanged, with its send table, its
\* send_info and its timer state.
C32_FailedInsertUnwinds ==
    [][ (last'.op = "insert" /\ last'.ret # "OK")
          => IF sched THEN UNCHANGED portState ELSE ~sched' ]_vars

----------------------------------------------------------------------------
(* Termination and array bounds of the dispatcher, checked under
   SpecDispatch. *)

\* C33: for every send table whose entries have positive periods, a start
\* that has the memory it needs runs the dispatcher to its end with every
\* access inside cells 0 .. size-1 of send_times and flow_ids: no counter
\* or sort bound wraps, so the kernel does not fault and no memory outside
\* the two arrays is read or written.
C33_DispatchStaysInArrays ==
    (/\ last.op = "start"
     /\ last.ret # "EINVAL"
     /\ Occupied(send_tt_table) # {}
     /\ \A p \in Periods(send_tt_table) : p > 0)
        => (~oops /\ ~heap_overrun)

----------------------------------------------------------------------------
(* The counter of the control-plane session, checked under SpecSession. *)

\* C34: in every reachable state of the control-plane session, after any
\* sequence of create, BeginAdd, AddEntry and EndAdd calls, recv_flows
\* equals the number of entries held in entry_list.
C34_ReceivedIsListLength ==
    session # NULL => session.recv_flows = Len(session.entry_list)

\* a second BeginAdd on a session that has already received two entries
C34_Witness ==
    /\ session # NULL
    /\ last.op = "receive_start"
    /\ session.state = "TTS_MUTABLE"
    /\ session.recv_flows = 2
    /\ Len(session.entry_list) = 2

====
